---------------------------- MODULE Spec2Model ----------------------------
(***************************************************************************)
(* SecureFiles (peakea/securefiles): the upload / download orchestrator    *)
(* (controllers/fileController.js) over the captcha store, the file        *)
(* record store and the blob store.                                        *)
(*                                                                         *)
(* Every handler is an async function.  One action of the model is one     *)
(* resumption of a handler: the storage operation it awaited executes      *)
(* (atomically, inside SQLite), and the handler then runs its synchronous  *)
(* code up to the next await.  Two handlers interleave only at awaits.     *)
(* A storage operation may reject (store unavailable, I/O error) whenever  *)
(* the store is one that can fail (faulty).                                *)
(*                                                                         *)
(* Time is counted in ticks; captchaExpiryMs and the TOTP step are scaled  *)
(* to ticks.  Captcha keys (randomBytes(16)) are modelled as never         *)
(* repeating; file identifiers (randomUUID) are drawn from a small set     *)
(* and may repeat, because the handling of a repeated identifier is part   *)
(* of the behaviour under study.                                           *)
(***************************************************************************)
EXTENDS Integers, Sequences, FiniteSets, TLC

\* ------------------------------------------------------------------ bounds
MaxKeys == 3        \* captcha keys that can be generated in one behaviour
MaxTime == 2        \* the clock runs 0..MaxTime
MaxClock == 6       \* ... and 0..MaxClock where downloads are followed over time

Uploads == {"u1", "u2"}      \* upload requests (POST /upload)
Downloads == {"d1"}          \* download request slots (POST /download/:uuid)

\* --------------------------------------------------------- configuration
captchaExpiryMs == 1         \* fileController.js:18, in ticks
totpWindow == 2              \* fileController.js:247, third argument
uploadsDir == "uploads"      \* fileController.js:16

\* ------------------------------------------------------------ value sets
UUIDs == {"id1", "id2"}                 \* values randomUUID() can return
MalformedUuid == "../id1"               \* a request parameter not shaped like a UUID
Secrets == {"s1", "s2"}                 \* values generateSecret().base32 returns
ByteMod == 4                            \* a byte is one of 0..ByteMod-1
Byte == 0..(ByteMod - 1)
Keys == {1, 2}                          \* process encryption keys
B1 == <<1>>                             \* uploaded payloads: byte sequences
B2 == <<2, 3>>
Buffers == {B1, B2}
NoBytes == <<>>                         \* no buffer / an empty buffer

NoKey == 0                              \* captchaKey absent or empty in the body
UnknownKey == -1                        \* a captchaKey that was never issued
NoTotp == <<>>                          \* totp absent or empty in the body

Texts == {<<"A", "b">>}                 \* generator.text of a captcha
AnswerInputs == {<<>>, <<" ", "a", "B">>, <<"b">>}

\* req.file (multer, memory storage) and req.body.filename of an upload:
\* no file, a picture, or an archive.  Each request has its own archive:
\* u1 sends B1 as report.zip, u2 sends B2 and names it custom.tgz.
NoFile == [mimetype |-> "", buffer |-> NoBytes, originalname |-> ""]
FormInputs(r) ==
    { [file |-> NoFile, filename |-> ""],
      [file |-> [mimetype |-> "image/png", buffer |-> B1, originalname |-> "report.png"],
       filename |-> ""],
      IF r = "u1"
      THEN [file |-> [mimetype |-> "application/zip", buffer |-> B1,
                      originalname |-> "report.zip"],
            filename |-> ""]
      ELSE [file |-> [mimetype |-> "application/gzip", buffer |-> B2,
                      originalname |-> "other.tgz"],
            filename |-> "custom.tgz"] }

AllowedTypes ==
    { "application/zip", "application/x-7z-compressed", "application/x-rar-compressed",
      "application/gzip", "application/x-tar", "application/x-xz", "application/x-bzip2" }

\* ----------------------------------------------------------------- state
VARIABLES
    now,             \* Date.now(), in ticks
    ENCRYPTION_KEY,  \* encryptionService: the process key
    captchas,        \* table captchas: key -> [text, created_at]
    files,           \* table files: uuid -> [filename, totp_secret]
    blobs,           \* uploads directory: file name -> encrypted buffer
    nextKey,         \* the next captcha key randomBytes(16) yields
    faulty,          \* whether the store is one whose operations can reject
    up,              \* upload requests: position, locals, history
    down,            \* download requests: position, locals
    sent,            \* the response the last step sent, if it sent one
    cleanupInterval, \* captchaCleanupService: the handle of the sweep timer, or null
    timers,          \* the interval timers that are active in the event loop
    sweep,           \* cleanExpiredCaptchas: position, cutoff, and what it logged
    img,             \* the captcha image request: position, token, tokens shown so far
    served,          \* history: (identifier, code) -> times a download was served for it
    probe            \* the last direct call of a service operation, and what it gave

\* what the request handlers never touch
aux == <<cleanupInterval, timers, sweep, served, img, probe>>
vars == <<now, ENCRYPTION_KEY, captchas, files, blobs, nextKey, faulty, up, down, sent,
          cleanupInterval, timers, sweep, served, img, probe>>

\* --------------------------------------------------------------- helpers
Put(f, k, v) == [x \in DOMAIN f \cup {k} |-> IF x = k THEN v ELSE f[x]]
Remove(f, k) == [x \in DOMAIN f \ {k} |-> f[x]]
Empty == [x \in {} |-> TRUE]

\* Whether a storage operation rejects.
FaultChoice == IF faulty THEN {FALSE, TRUE} ELSE {FALSE}


\* ------------------------------------------------------- captchaService
ToLowerChar(c) == CASE c = "A" -> "a" [] c = "B" -> "b" [] OTHER -> c
toLowerCase(s) == [i \in 1..Len(s) |-> ToLowerChar(s[i])]

RECURSIVE trimStart(_)
trimStart(s) == IF s # <<>> /\ Head(s) = " " THEN trimStart(Tail(s)) ELSE s
RECURSIVE trimEnd(_)
trimEnd(s) == IF s # <<>> /\ s[Len(s)] = " " THEN trimEnd(SubSeq(s, 1, Len(s) - 1)) ELSE s
trim(s) == trimEnd(trimStart(s))

\* a comparison that lower-cases but does not trim
verify_NoTrim(userAnswer, storedAnswer) ==
    IF userAnswer = <<>> \/ storedAnswer = <<>>
    THEN FALSE
    ELSE toLowerCase(userAnswer) = toLowerCase(storedAnswer)
\* captchaService.verify(userAnswer, storedAnswer); <<>> stands for a value
\* that is missing (undefined) or the empty string, which ! treats alike
verify(userAnswer, storedAnswer) ==
    IF userAnswer = <<>> \/ storedAnswer = <<>>
    THEN FALSE
    ELSE trim(toLowerCase(userAnswer)) = trim(toLowerCase(storedAnswer))

\* an expiry check that already rejects at the boundary
isExpired_AtBoundary(createdAt, expiryMs) == now >= createdAt + expiryMs
\* captchaService.isExpired(createdAt, expiryMs), with Date.now() = now
isExpired(createdAt, expiryMs) == now > createdAt + expiryMs

\* --------------------------------------------------------- captchaModel
\* a create that resolves without having stored the row
captchaModelCreate_NotStored(cs, key, text, createdAt) == cs
\* an insert that replaces whatever the table held
captchaModelCreate_Replacing(cs, key, text, createdAt) ==
    Put(Empty, key, [text |-> text, created_at |-> createdAt])
\* captchaModel.create: INSERT INTO captchas (key, text, created_at)
captchaModelCreate(cs, key, text, createdAt) ==
    Put(cs, key, [text |-> text, created_at |-> createdAt])

\* captchaModel.findByKey: the row, or undefined
NoRow == [text |-> <<>>, created_at |-> -1]
captchaModelFindByKey(cs, key) == IF key \in DOMAIN cs THEN cs[key] ELSE NoRow

\* a delete that resolves without having removed the row
captchaModelDelete_Kept(cs, key) == cs
\* captchaModel.delete: DELETE FROM captchas WHERE key = ?
captchaModelDelete(cs, key) == Remove(cs, key)

\* a sweep that also removes the rows created exactly at the cutoff
captchaModelCleanExpired_AtCutoff(cs, cutoffTime) ==
    [k \in {x \in DOMAIN cs : cs[x].created_at > cutoffTime} |-> cs[k]]
\* a sweep that removes no row
captchaModelCleanExpired_None(cs, cutoffTime) == cs
\* a sweep that removes every row
captchaModelCleanExpired_All(cs, cutoffTime) == [k \in {} |-> cs[k]]
\* captchaModel.cleanExpired: DELETE FROM captchas WHERE created_at < cutoffTime
\* (the rows that stay); result.changes is the number of rows removed
captchaModelCleanExpired(cs, cutoffTime) ==
    [k \in {x \in DOMAIN cs : ~(cs[x].created_at < cutoffTime)} |-> cs[k]]
changes(before, after) == Cardinality(DOMAIN before \ DOMAIN after)
\* captchaModel.count: SELECT COUNT(*) FROM captchas
captchaModelCount(cs) == Cardinality(DOMAIN cs)

\* ------------------------------------------------------------ fileModel
\* fileModel.create: INSERT INTO files (uuid, filename, totp_secret);
\* uuid is the PRIMARY KEY, so the insert rejects when the uuid is present.
\* an insert that replaces the row of an identifier that is already there
fileModelCreateConflicts_Never(fs, uuid) == FALSE
fileModelCreateConflicts(fs, uuid) == uuid \in DOMAIN fs
fileModelCreate(fs, uuid, filename, totpSecret) ==
    Put(fs, uuid, [filename |-> filename, totp_secret |-> totpSecret])

\* ---------------------------------------------------------- totpService
TotpStep == 1                \* speakeasy's time step, in ticks
Counter(t) == t \div TotpStep
\* the code speakeasy derives from a secret for one time-step counter
HOTP(secret, counter) == <<secret, counter>>
\* totpService.generateToken(secret)
generateToken(secret) == HOTP(secret, Counter(now))

\* a verification that accepts the code of the current time step only
verifyToken_CurrentOnly(secret, token, window) == token = HOTP(secret, Counter(now))
\* a verification whose tolerance reaches into the past only
verifyToken_PastOnly(secret, token, window) ==
    \E c \in (Counter(now) - window)..Counter(now) : token = HOTP(secret, c)
\* a verification that accepts a code of any secret
verifyToken_AnySecret(secret, token, window) ==
    \E s \in Secrets : \E c \in (Counter(now) - window)..(Counter(now) + window) :
        token = HOTP(s, c)
\* totpService.verifyToken(secret, token, window)
verifyToken(secret, token, window) ==
    \E c \in (Counter(now) - window)..(Counter(now) + window) : token = HOTP(secret, c)

\* codes a client can submit: of either secret, for the first time step or
\* for the first one that is out of tolerance at time 0
TotpCounters == {0, totpWindow + 1}
TotpInputs == {NoTotp} \cup {HOTP(s, c) : s \in Secrets, c \in TotpCounters}

\* ---------------------------------------------------- encryptionService
\* aes-256-cbc is modelled as a keyed byte permutation (adding the key,
\* modulo ByteMod) in cipher block chaining over blocks of BlockLen bytes,
\* with PKCS#7 padding: what createCipheriv / createDecipheriv do with
\* update() and final(), at a small scale.
BlockLen == 2                \* the cipher's block length, in bytes
IV_LENGTH == 2               \* the configured nonce length (the block length, for CBC)
IVs == {<<0, 1>>}            \* values randomBytes(IV_LENGTH) yields during uploads

\* cipher.final(): the padding that fills the last block (a whole block
\* when the data ends on a block boundary)
pkcs7Pad(data) ==
    LET n == BlockLen - (Len(data) % BlockLen)
    IN  data \o [i \in 1..n |-> n]
\* decipher.final(): whether the last block ends in a valid padding
pkcs7Valid(padded) ==
    /\ padded # <<>>
    /\ LET n == padded[Len(padded)]
       IN  /\ n \in 1..BlockLen
           /\ n <= Len(padded)
           /\ \A i \in (Len(padded) - n + 1)..Len(padded) : padded[i] = n
pkcs7Unpad(padded) == SubSeq(padded, 1, Len(padded) - padded[Len(padded)])

\* cipher.update(): each block is combined with the previous cipher block
\* (the iv for the first) and put through the keyed permutation
RECURSIVE cipherUpdate(_, _, _)
cipherUpdate(key, prev, data) ==
    IF data = <<>>
    THEN <<>>
    ELSE LET c == [i \in 1..BlockLen |-> (data[i] + prev[i] + key) % ByteMod]
         IN  c \o cipherUpdate(key, c, SubSeq(data, BlockLen + 1, Len(data)))
\* decipher.update(): the inverse, block by block
RECURSIVE decipherUpdate(_, _, _)
decipherUpdate(key, prev, data) ==
    IF data = <<>>
    THEN <<>>
    ELSE LET block == SubSeq(data, 1, BlockLen)
             p == [i \in 1..BlockLen |->
                     (block[i] - prev[i] - key + 2 * ByteMod) % ByteMod]
         IN  p \o decipherUpdate(key, block, SubSeq(data, BlockLen + 1, Len(data)))

\* encryptionService.encryptFile(buffer): iv followed by the ciphertext
encryptFile(buffer, iv) ==
    iv \o cipherUpdate(ENCRYPTION_KEY, iv, pkcs7Pad(buffer))
\* a decryption that takes one byte too many for the iv
decryptFile_LongIv(buffer) ==
    LET iv == SubSeq(buffer, 1, IV_LENGTH)
        encrypted == SubSeq(buffer, IV_LENGTH + 2, Len(buffer))
    IN  IF Len(buffer) < IV_LENGTH
        THEN [ok |-> FALSE, bytes |-> NoBytes, code |-> "ERR_CRYPTO_INVALID_IV"]
        ELSE IF encrypted = <<>> \/ Len(encrypted) % BlockLen # 0
        THEN [ok |-> FALSE, bytes |-> NoBytes, code |-> "ERR_OSSL_WRONG_FINAL_BLOCK_LENGTH"]
        ELSE LET padded == decipherUpdate(ENCRYPTION_KEY, iv, encrypted)
             IN  IF pkcs7Valid(padded)
                 THEN [ok |-> TRUE, bytes |-> pkcs7Unpad(padded), code |-> ""]
                 ELSE [ok |-> FALSE, bytes |-> NoBytes, code |-> "ERR_OSSL_BAD_DECRYPT"]
\* encryptionService.decryptFile(buffer): the first IV_LENGTH bytes are the
\* iv, the rest is deciphered; final() throws ERR_OSSL_BAD_DECRYPT when the
\* padding is not valid (and a length error when the rest is not made of
\* whole blocks), otherwise the unpadded bytes are returned.
decryptFile(buffer) ==
    LET iv == SubSeq(buffer, 1, IV_LENGTH)
        encrypted == SubSeq(buffer, IV_LENGTH + 1, Len(buffer))
    IN  IF Len(buffer) < IV_LENGTH
        THEN [ok |-> FALSE, bytes |-> NoBytes, code |-> "ERR_CRYPTO_INVALID_IV"]
        ELSE IF encrypted = <<>> \/ Len(encrypted) % BlockLen # 0
        THEN [ok |-> FALSE, bytes |-> NoBytes, code |-> "ERR_OSSL_WRONG_FINAL_BLOCK_LENGTH"]
        ELSE LET padded == decipherUpdate(ENCRYPTION_KEY, iv, encrypted)
             IN  IF pkcs7Valid(padded)
                 THEN [ok |-> TRUE, bytes |-> pkcs7Unpad(padded), code |-> ""]
                 ELSE [ok |-> FALSE, bytes |-> NoBytes, code |-> "ERR_OSSL_BAD_DECRYPT"]

\* encryptionService with its key configuration.  ENCRYPTION_KEY is null
\* (NoKey) until setupEncryption has set it.
\* a setup that prefers the configured key
setupEncryptionKey_ConfigFirst(envKey, configKey) ==
    IF configKey # NoKey THEN configKey ELSE envKey
\* setupEncryption(config): the key it assigns, NoKey when it throws
\* 'Encryption key not configured' before assigning anything
setupEncryptionKey(envKey, configKey) ==
    IF envKey # NoKey THEN envKey
    ELSE IF configKey # NoKey THEN configKey
    ELSE NoKey
MsgKeyNotConfigured == <<"Encryption key not configured">>
MsgNotInitialized == <<"Encryption service not initialized. Call setupEncryption first.">>
\* encryptionService.encryptFile / decryptFile behind their guard
\* 'if (!ENCRYPTION_KEY) throw'
NotInitialized == [ok |-> FALSE, bytes |-> NoBytes, code |-> "", message |-> MsgNotInitialized]
serviceEncryptFile(buffer, iv) ==
    IF ENCRYPTION_KEY = NoKey
    THEN NotInitialized
    ELSE [ok |-> TRUE, bytes |-> encryptFile(buffer, iv), code |-> "", message |-> <<>>]
serviceDecryptFile(buffer) ==
    IF ENCRYPTION_KEY = NoKey
    THEN NotInitialized
    ELSE LET o == decryptFile(buffer)
         IN  [ok |-> o.ok, bytes |-> o.bytes, code |-> o.code, message |-> <<>>]
\* blobs on disk: written under some key at some time
StoredBlobs ==
    {iv \o cipherUpdate(key, iv, pkcs7Pad(buffer)) :
        key \in Keys, iv \in IVs, buffer \in Buffers}

\* The codec on its own: every buffer of up to MaxBufLen bytes, every iv that
\* randomBytes(IV_LENGTH) can return.
MaxBufLen == 3
CodecBuffers == UNION {[1..n -> Byte] : n \in 0..MaxBufLen}
CodecIVs == [1..IV_LENGTH -> Byte]

\* --------------------------------------------------- fileStorageService
\* The text of an identifier, split at the path separator.  Identifiers
\* without a separator are one segment.
Split(p) ==
    CASE p = "../id1" -> <<"..", "id1">>
      [] p = "../"     -> <<"..", "">>
      [] p = "id1/.."  -> <<"id1", "..">>
      [] p = "id1/id2" -> <<"id1", "id2">>
      [] p = "/"       -> <<"", "">>
      [] OTHER         -> <<p>>
RECURSIVE stripTrailing(_)
stripTrailing(segs) ==
    IF segs # <<>> /\ segs[Len(segs)] = ""
    THEN stripTrailing(SubSeq(segs, 1, Len(segs) - 1))
    ELSE segs
\* path.basename: trailing separators are dropped, and what follows the
\* last separator is returned
basename(uuid) ==
    LET segs == stripTrailing(Split(uuid))
    IN  IF segs = <<>> THEN "" ELSE segs[Len(segs)]
\* path.normalize: "." and empty segments vanish, ".." removes the segment
\* before it (and stays when there is none)
RECURSIVE normalize(_, _)
normalize(segs, acc) ==
    IF segs = <<>>
    THEN acc
    ELSE LET seg == Head(segs)
             rest == Tail(segs)
         IN  IF seg = "" \/ seg = "."
             THEN normalize(rest, acc)
             ELSE IF seg = ".." /\ acc # <<>> /\ acc[Len(acc)] # ".."
             THEN normalize(rest, SubSeq(acc, 1, Len(acc) - 1))
             ELSE normalize(rest, Append(acc, seg))
\* path.join(uploadsDir, safeUuid): the segments of the path accessed
join(dir, name) == normalize(Split(dir) \o Split(name), <<>>)
filePath(uuid) == join(uploadsDir, basename(uuid))
\* whether a path names an entry below the uploads directory
IsFileInRoot(path) == Len(path) = 2 /\ path[1] = uploadsDir
\* a save that returns without having written
saveFile_NotWritten(bs, uuid, buffer) == bs
\* fileStorageService.saveFile: writeFileSync(join(uploadsDir, basename(uuid)))
saveFile(bs, uuid, buffer) == Put(bs, basename(uuid), buffer)
\* fileStorageService.fileExists
fileExists(bs, uuid) == basename(uuid) \in DOMAIN bs
\* fileStorageService.readFile
readFile(bs, uuid) == bs[basename(uuid)]
\* fileStorageService.deleteFile: unlinkSync when existsSync
deleteFile(bs, uuid) == Remove(bs, basename(uuid))

\* Identifier values handed to the blob store: generated identifiers, and
\* values with "..", "." and separators.
PathInputs == UUIDs \cup {MalformedUuid, "..", "../", "id1/..", "id1/id2", "/", ".", ""}
\* A path that is not an entry below the uploads directory names a
\* directory (the uploads directory or one above it): writeFileSync and
\* readFileSync throw EISDIR there, unlinkSync throws, existsSync is true.
Accessed(op, uuid, result, bytes) ==
    [op |-> op, uuid |-> uuid, path |-> filePath(uuid), result |-> result, bytes |-> bytes]

\* Answers handed to captchaService.verify
MaxAnswerLen == 3
VerifyChars == {" ", "a", "A", "b"}
VerifyInputs == UNION {[1..n -> VerifyChars] : n \in 0..MaxAnswerLen}

\* what a call of the blob store leaves alone
handlers == <<now, ENCRYPTION_KEY, captchas, files, nextKey, faulty, up, down, sent,
              cleanupInterval, timers, sweep, served, img>>

StorageSave ==
    /\ UNCHANGED handlers
    /\ \E uuid \in PathInputs, buffer \in Buffers :
        IF IsFileInRoot(filePath(uuid))
        THEN /\ blobs' = saveFile(blobs, uuid, buffer)
             /\ probe' = Accessed("saveFile", uuid, "ok", buffer)
        ELSE /\ blobs' = blobs
             /\ probe' = Accessed("saveFile", uuid, "EISDIR", NoBytes)

StorageRead ==
    /\ UNCHANGED handlers
    /\ \E uuid \in PathInputs :
        probe' = IF ~IsFileInRoot(filePath(uuid))
                 THEN Accessed("readFile", uuid, "EISDIR", NoBytes)
                 ELSE IF fileExists(blobs, uuid)
                 THEN Accessed("readFile", uuid, "ok", readFile(blobs, uuid))
                 ELSE Accessed("readFile", uuid, "ENOENT", NoBytes)
    /\ blobs' = blobs

StorageDelete ==
    /\ UNCHANGED handlers
    /\ \E uuid \in PathInputs :
        IF ~IsFileInRoot(filePath(uuid))
        THEN /\ blobs' = blobs
             /\ probe' = Accessed("deleteFile", uuid, "EISDIR", NoBytes)
        ELSE IF fileExists(blobs, uuid)
        THEN /\ blobs' = deleteFile(blobs, uuid)
             /\ probe' = Accessed("deleteFile", uuid, "true", NoBytes)
        ELSE /\ blobs' = blobs
             /\ probe' = Accessed("deleteFile", uuid, "false", NoBytes)

StorageExists ==
    /\ UNCHANGED handlers
    /\ \E uuid \in PathInputs :
        probe' = IF ~IsFileInRoot(filePath(uuid)) \/ fileExists(blobs, uuid)
                 THEN Accessed("fileExists", uuid, "true", NoBytes)
                 ELSE Accessed("fileExists", uuid, "false", NoBytes)
    /\ blobs' = blobs

\* -------------------------------------------------------- error messages
DbError == <<"SQLITE_IOERR: disk I/O error">>
ConstraintError == <<"SQLITE_CONSTRAINT: UNIQUE constraint failed: files.uuid">>
FsError(uuid) == <<"ENOSPC: no space left on device, open '", uploadsDir, "/", uuid, "'">>

\* -------------------------------------------------------------- responses
\* A response: the view and the values handed to it.  to and param record
\* the request it answers (its slot, its :uuid parameter); totp records the
\* code that request submitted when the response is the file.
NoResp == [to |-> "", param |-> "", totp |-> NoTotp,
           view |-> "", error |-> <<>>, captchaKey |-> NoKey,
           uuid |-> "", totpSecret |-> "", filename |-> "", body |-> NoBytes]
\* res.render('index', { error, captchaKey, ... })
RenderIndex(r, error, key) ==
    [NoResp EXCEPT !.to = r, !.view = "index", !.error = error, !.captchaKey = key]
\* res.render('upload-success', { uuid, totpSecret, filename })
RenderSuccess(r, uuid, secret, filename) ==
    [NoResp EXCEPT !.to = r, !.view = "upload-success", !.uuid = uuid,
                   !.totpSecret = secret, !.filename = filename]
\* a download view that is handed the record's secret as well
RenderDownload_WithSecret(q, uuid, error) ==
    [NoResp EXCEPT !.to = q, !.param = uuid,
                   !.view = "download", !.uuid = uuid, !.error = error,
                   !.totpSecret = IF uuid \in DOMAIN files
                                  THEN files[uuid].totp_secret ELSE ""]
\* res.render('download', { uuid, error })
RenderDownload(q, uuid, error) ==
    [NoResp EXCEPT !.to = q, !.param = uuid,
                   !.view = "download", !.uuid = uuid, !.error = error]
\* res.setHeader('Content-Disposition', ...); res.send(decryptedBuffer)
SendFile(q, uuid, totp, filename, bytes) ==
    [NoResp EXCEPT !.to = q, !.param = uuid, !.totp = totp,
                   !.view = "file", !.filename = filename, !.body = bytes]

MsgRequired == <<"Captcha verification required">>
MsgNotFound == <<"Captcha not found or already used">>
MsgExpired == <<"Captcha expired. Please try again.">>
MsgIncorrect == <<"Incorrect captcha answer. Please try again.">>
MsgNoFile == <<"No file uploaded">>
MsgBadType == <<"Only archive files (ZIP, 7Z, RAR, GZIP, TAR) are accepted">>
MsgUploadError == "Error processing file upload: "
\* the messages of the six early-exit branches of uploadFile
EarlyExitMessages ==
    {MsgRequired, MsgNotFound, MsgExpired, MsgIncorrect, MsgNoFile, MsgBadType}
MsgLoadError == <<"Error loading page">>

\* --------------------------------------------------------------- requests
\* An upload request.  pc is the await the handler is suspended at; next is
\* the message of the early exit it is heading for (<<>> on the verified
\* path).  late, reached, passed, persistFailed and responses are
\* history: whether the request arrived, with key and answer, after a
\* finished request had looked the same key up and found it; whether the
\* lookup found the row; whether the handler went on to the payload steps;
\* whether the blob write or the record insert failed; how many responses
\* were sent.  A finished request keeps only what later requests are
\* compared with.
IdleUpload ==
    [pc |-> "idle", captchaKey |-> NoKey, next |-> <<>>,
     uuid |-> "", fileName |-> "", buffer |-> NoBytes, err |-> <<>>,
     late |-> FALSE, reached |-> FALSE, passed |-> FALSE, persistFailed |-> FALSE,
     responses |-> 0]
IdleDownload == [pc |-> "idle", uuid |-> ""]
IdleImage == [pc |-> "idle", key |-> NoKey, shown |-> {}]

\* The request record once the handler has ended: with a response sent
\* ("done") or with its promise rejected ("unhandled").
End(u, pc) ==
    [u EXCEPT !.pc = pc, !.next = <<>>, !.err = <<>>, !.persistFailed = FALSE,
              !.captchaKey = IF u.reached THEN u.captchaKey ELSE NoKey,
              !.responses = IF pc = "done" THEN u.responses + 1 ELSE u.responses]

Finished(r) == up[r].pc \in {"done", "unhandled"}
InFlight(r) == up[r].pc \notin {"idle", "done", "unhandled"}
Succeeded(r) == up[r].pc = "done" /\ up[r].uuid # ""
\* keys some finished upload has looked up and found stored
Attempted == {up[r].captchaKey : r \in {x \in Uploads : Finished(x) /\ up[x].reached}}
IssuedKeys == 1..(nextKey - 1)
\* totpService.generateSecret().base32: a fresh secret for every upload
generateSecret(r) == IF r = "u1" THEN "s1" ELSE "s2"

\* cleanupInterval = null; a timer is the Timeout object setInterval returns
NoTimer == [id |-> 0, intervalMs |-> 0]
\* config.captcha.cleanupIntervalMs, in ticks
CleanupIntervals == {1, 2}
NoCall == [op |-> ""]
\* the sweep between two timer callbacks; deleted and remaining are what the
\* last callback logged (NotLogged when it logged an error, or never ran);
\* at is the time at which a callback in progress was called
NotLogged == -1
IdleSweep ==
    [pc |-> "idle", at |-> 0, cutoffTime |-> 0, deleted |-> NotLogged, remaining |-> NotLogged]

Init ==
    /\ now = 0
    /\ ENCRYPTION_KEY = 1
    /\ captchas = Empty
    /\ files = Empty
    /\ blobs = Empty
    /\ nextKey = 1
    /\ faulty = TRUE
    /\ up = [r \in Uploads |-> IdleUpload]
    /\ down = [q \in Downloads |-> IdleDownload]
    /\ sent = NoResp
    /\ cleanupInterval = NoTimer
    /\ timers = {}
    /\ sweep = IdleSweep
    /\ served = Empty
    /\ img = IdleImage
    /\ probe = NoCall

\* The same program over a store whose operations never reject.
InitReliable ==
    /\ now = 0
    /\ ENCRYPTION_KEY = 1
    /\ captchas = Empty
    /\ files = Empty
    /\ blobs = Empty
    /\ nextKey = 1
    /\ faulty = FALSE
    /\ up = [r \in Uploads |-> IdleUpload]
    /\ down = [q \in Downloads |-> IdleDownload]
    /\ sent = NoResp
    /\ cleanupInterval = NoTimer
    /\ timers = {}
    /\ sweep = IdleSweep
    /\ served = Empty
    /\ img = IdleImage
    /\ probe = NoCall

\* ------------------------------------------------------------ environment
\* The process is stopped between two requests and started again: the key
\* is read anew from the environment or config.json (the same key or another
\* one), setupDatabase drops and recreates the captchas table, and the timers
\* of the old process are gone. The files table and the blobs stay.
Restart ==
    /\ \A r \in Uploads : up[r].pc \in {"idle", "done", "unhandled"}
    /\ \A q \in Downloads : down[q].pc = "idle"
    /\ img.pc = "idle"
    /\ \E key \in Keys : ENCRYPTION_KEY' = key
    /\ captchas' = Empty
    /\ cleanupInterval' = NoTimer
    /\ timers' = {}
    /\ sweep' = IdleSweep
    /\ sent' = NoResp
    /\ UNCHANGED <<now, files, blobs, nextKey, faulty, up, down, served, img, probe>>

\* the clock where downloads are followed over time
TickLate ==
    /\ now < MaxClock
    /\ now' = now + 1
    /\ sent' = NoResp
    /\ UNCHANGED <<ENCRYPTION_KEY, captchas, files, blobs, nextKey, faulty, up, down>>
    /\ UNCHANGED aux

Tick ==
    /\ now < MaxTime
    /\ now' = now + 1
    /\ sent' = NoResp
    /\ UNCHANGED <<ENCRYPTION_KEY, captchas, files, blobs, nextKey, faulty, up, down>>
    /\ UNCHANGED aux

\* viewController.showHomePage: generate a captcha, store it, render the form
\* (the bound on keys leaves one key for the response of every upload)
ShowHomePage ==
    /\ nextKey + Cardinality({r \in Uploads : ~Finished(r)}) <= MaxKeys
    /\ \E fail \in FaultChoice, text \in Texts :
         IF fail
         THEN /\ sent' = RenderIndex("home", MsgLoadError, NoKey)
              /\ UNCHANGED <<captchas, nextKey>>
         ELSE /\ captchas' = captchaModelCreate(captchas, nextKey, text, now)
              /\ nextKey' = nextKey + 1
              /\ sent' = RenderIndex("home", <<>>, nextKey)
    /\ UNCHANGED <<now, ENCRYPTION_KEY, files, blobs, up, down, faulty>>
    /\ UNCHANGED aux

\* ----------------------------------------------- fileController.uploadFile
\* Entry to the first await: the presence check of captchaKey / captchaAnswer.
\* The fields of a request do not depend on the server's state, so the
\* model draws each where the handler first uses its value: here the key
\* and whether there is an answer, the answer at the answer check, the file
\* at the file check.
UploadStartWith(r, key, answer) ==
    /\ up[r].pc = "idle"
    /\ r = "u2" => up["u1"].pc # "idle"      \* u1 names the request that arrives first
    /\ up' = [up EXCEPT ![r] =
                  IF key = NoKey \/ answer = <<>>
                  THEN [@ EXCEPT !.pc = "regen", !.captchaKey = key, !.next = MsgRequired]
                  ELSE [@ EXCEPT !.pc = "find", !.captchaKey = key,
                                 !.late = key \in Attempted]]
    /\ sent' = NoResp
    /\ UNCHANGED <<now, ENCRYPTION_KEY, captchas, files, blobs, nextKey, faulty, down>>
    /\ UNCHANGED <<cleanupInterval, timers, sweep, served, img>>

UploadStart(r) ==
    /\ \E key \in {NoKey, UnknownKey} \cup IssuedKeys, answer \in AnswerInputs :
         UploadStartWith(r, key, answer)
    /\ UNCHANGED probe

\* await captchaModel.findByKey(captchaKey) resolves; the not-found, expiry
\* and answer checks run; the handler reaches its next await.
\* checks of the stored challenge with the answer check ahead of the expiry check
captchaChecks_AnswerFirst(storedCaptcha, captchaAnswer) ==
    IF storedCaptcha = NoRow
    THEN MsgNotFound
    ELSE IF ~verify(captchaAnswer, storedCaptcha.text)
    THEN MsgIncorrect
    ELSE IF isExpired(storedCaptcha.created_at, captchaExpiryMs)
    THEN MsgExpired
    ELSE <<>>
\* The checks that follow the lookup, in the order of the code: the message
\* of the first one that fails, <<>> when all pass.
captchaChecks(storedCaptcha, captchaAnswer) ==
    IF storedCaptcha = NoRow
    THEN MsgNotFound
    ELSE IF isExpired(storedCaptcha.created_at, captchaExpiryMs)
    THEN MsgExpired
    ELSE IF ~verify(captchaAnswer, storedCaptcha.text)
    THEN MsgIncorrect
    ELSE <<>>

UploadFindWith(r, fail, captchaAnswer) ==
    /\ up[r].pc = "find"
    /\ IF fail
       THEN /\ up' = [up EXCEPT ![r] = [@ EXCEPT !.pc = "catch", !.err = DbError]]
       ELSE LET storedCaptcha == captchaModelFindByKey(captchas, up[r].captchaKey) IN
            /\ up' = [up EXCEPT ![r] =
                 IF storedCaptcha = NoRow
                 THEN [@ EXCEPT !.pc = "regen",
                                !.next = captchaChecks(storedCaptcha, captchaAnswer)]
                 ELSE [@ EXCEPT !.pc = "delete",
                                !.next = captchaChecks(storedCaptcha, captchaAnswer),
                                !.reached = TRUE]]
    /\ sent' = NoResp
    /\ UNCHANGED <<now, ENCRYPTION_KEY, captchas, files, blobs, nextKey, down, faulty>>
    /\ UNCHANGED <<cleanupInterval, timers, sweep, served, img>>

UploadFind(r) ==
    /\ \E fail \in FaultChoice, captchaAnswer \in AnswerInputs \ {<<>>} :
         UploadFindWith(r, fail, captchaAnswer)
    /\ UNCHANGED probe

\* await captchaModel.delete(captchaKey) resolves.  On the expired and the
\* incorrect branch the handler goes on to regenerate.  On the verified
\* branch it checks the file and its type, draws uuid and secret, encrypts,
\* writes the blob (synchronously) and reaches await fileModel.create.
UploadDeleteWith(r, fail, form) ==
    /\ up[r].pc = "delete"
    /\ sent' = NoResp
    /\   IF fail
         THEN /\ up' = [up EXCEPT ![r] = [@ EXCEPT !.pc = "catch", !.err = DbError, !.next = <<>>]]
              /\ UNCHANGED <<captchas, blobs>>
         ELSE /\ captchas' = captchaModelDelete(captchas, up[r].captchaKey)
              /\ IF up[r].next # <<>>
                 THEN /\ up' = [up EXCEPT ![r] = [@ EXCEPT !.pc = "regen"]]
                      /\ UNCHANGED blobs
                 ELSE \E uuid \in UUIDs, iv \in IVs, writeFails \in FaultChoice :
                      LET file == form.file
                          fileName == IF form.filename # "" THEN form.filename
                                      ELSE file.originalname
                      IN
                      IF file = NoFile
                      THEN /\ up' = [up EXCEPT ![r] = [@ EXCEPT !.pc = "regen", !.next = MsgNoFile,
                                                                !.passed = TRUE]]
                           /\ UNCHANGED blobs
                      ELSE IF file.mimetype \notin AllowedTypes
                      THEN /\ up' = [up EXCEPT ![r] = [@ EXCEPT !.pc = "regen", !.next = MsgBadType,
                                                                !.passed = TRUE]]
                           /\ UNCHANGED blobs
                      ELSE IF writeFails
                      THEN /\ up' = [up EXCEPT ![r] = [@ EXCEPT !.pc = "catch", !.err = FsError(uuid),
                                                                !.passed = TRUE,
                                                                !.persistFailed = TRUE]]
                           /\ UNCHANGED blobs
                      ELSE /\ blobs' = saveFile(blobs, uuid, encryptFile(file.buffer, iv))
                           /\ up' = [up EXCEPT ![r] = [@ EXCEPT !.pc = "insert", !.uuid = uuid,
                                                                !.fileName = fileName,
                                                                !.buffer = file.buffer,
                                                                !.passed = TRUE]]
    /\ UNCHANGED <<now, ENCRYPTION_KEY, files, nextKey, down, faulty>>
    /\ UNCHANGED <<cleanupInterval, timers, sweep, served, img>>

UploadDelete(r) ==
    /\ \E fail \in FaultChoice, form \in FormInputs(r) : UploadDeleteWith(r, fail, form)
    /\ UNCHANGED probe

\* The same three steps for a request whose fields are written down when it
\* arrives: the token, the answer and the form are those of one request.
UploadStartRecorded(r) ==
    \E key \in {NoKey, UnknownKey} \cup IssuedKeys, answer \in AnswerInputs,
       form \in FormInputs(r) :
        /\ UploadStartWith(r, key, answer)
        /\ probe' = [op |-> "uploadFile", captchaKey |-> key, captchaAnswer |-> answer,
                     form |-> form]

UploadFindRecorded(r) ==
    /\ probe.op = "uploadFile"
    /\ \E fail \in FaultChoice : UploadFindWith(r, fail, probe.captchaAnswer)
    /\ UNCHANGED probe

UploadDeleteRecorded(r) ==
    /\ probe.op = "uploadFile"
    /\ \E fail \in FaultChoice : UploadDeleteWith(r, fail, probe.form)
    /\ UNCHANGED probe

\* await fileModel.create(uuid, fileName, totpSecret.base32) resolves and the
\* success page is rendered, or it rejects and the catch block is entered.
UploadInsert(r) ==
    /\ up[r].pc = "insert"
    /\ \E fail \in FaultChoice :
         IF fail
         THEN /\ up' = [up EXCEPT ![r] = [@ EXCEPT !.pc = "catch", !.err = DbError,
                                                   !.persistFailed = TRUE,
                                                   !.uuid = "", !.fileName = "", !.buffer = NoBytes]]
              /\ sent' = NoResp
              /\ UNCHANGED files
         ELSE IF fileModelCreateConflicts(files, up[r].uuid)
         THEN /\ up' = [up EXCEPT ![r] = [@ EXCEPT !.pc = "catch", !.err = ConstraintError,
                                                   !.persistFailed = TRUE,
                                                   !.uuid = "", !.fileName = "", !.buffer = NoBytes]]
              /\ sent' = NoResp
              /\ UNCHANGED files
         ELSE /\ files' = fileModelCreate(files, up[r].uuid, up[r].fileName, generateSecret(r))
              /\ up' = [up EXCEPT ![r] = End(up[r], "done")]
              /\ sent' = RenderSuccess(r, up[r].uuid, generateSecret(r), up[r].fileName)
    /\ UNCHANGED <<now, ENCRYPTION_KEY, captchas, blobs, nextKey, down, faulty>>
    /\ UNCHANGED aux

\* An early-exit branch: captchaService.generate(), await captchaModel.create,
\* res.render('index', { error, captchaKey: captcha.key }).  The create is
\* inside the try block: when it rejects the catch block is entered.
UploadRegen(r) ==
    /\ up[r].pc = "regen"
    /\ nextKey <= MaxKeys
    /\ \E fail \in FaultChoice, text \in Texts :
         IF fail
         THEN /\ up' = [up EXCEPT ![r] = [@ EXCEPT !.pc = "catch", !.err = DbError, !.next = <<>>]]
              /\ sent' = NoResp
              /\ UNCHANGED <<captchas, nextKey>>
         ELSE /\ captchas' = captchaModelCreate(captchas, nextKey, text, now)
              /\ nextKey' = nextKey + 1
              /\ up' = [up EXCEPT ![r] = End(up[r], "done")]
              /\ sent' = RenderIndex(r, up[r].next, nextKey)
    /\ UNCHANGED <<now, ENCRYPTION_KEY, files, blobs, down, faulty>>
    /\ UNCHANGED aux

\* The catch block: captchaService.generate(), await captchaModel.create,
\* res.render('index', { error: 'Error processing file upload: ' + error.message }).
\* Nothing encloses this await: when it rejects, the handler's promise
\* rejects and no response is sent.
UploadCatch(r) ==
    /\ up[r].pc = "catch"
    /\ nextKey <= MaxKeys
    /\ \E fail \in FaultChoice, text \in Texts :
         IF fail
         THEN /\ up' = [up EXCEPT ![r] = End(up[r], "unhandled")]
              /\ sent' = NoResp
              /\ UNCHANGED <<captchas, nextKey>>
         ELSE /\ captchas' = captchaModelCreate(captchas, nextKey, text, now)
              /\ nextKey' = nextKey + 1
              /\ up' = [up EXCEPT ![r] = End(up[r], "done")]
              /\ sent' = RenderIndex(r, <<MsgUploadError>> \o up[r].err, nextKey)
    /\ UNCHANGED <<now, ENCRYPTION_KEY, files, blobs, down, faulty>>
    /\ UNCHANGED aux

\* --------------------------------------------- fileController.downloadFile
\* the uuidRegex test of the request parameter
\* a format check that lets every value through
uuidRegexTest_Any(uuid) == TRUE
uuidRegexTest(uuid) == uuid \in UUIDs

MsgInvalidUuid == <<"Invalid UUID format">>
MsgTotpRequired == <<"TOTP code is required">>
MsgFileNotFound == <<"File not found">>
MsgInvalidTotp == <<"Invalid TOTP code">>
MsgKeyChanged == <<"Unable to decrypt file. The server encryption key may have changed since upload.">>
MsgDecryptError == <<"Error decrypting file.">>
MsgDownloadError == <<"Error processing download request">>

\* Entry to the first await: the format check and the code presence check.
\* Whether a code is present is drawn here; the code itself is drawn where
\* it is first read, after the lookup.
DownloadStart(q) ==
    /\ down[q].pc = "idle"
    /\ \E uuid \in UUIDs \cup {MalformedUuid}, hasTotp \in BOOLEAN :
         IF ~uuidRegexTest(uuid)
         THEN /\ sent' = RenderDownload(q, uuid, MsgInvalidUuid)
              /\ UNCHANGED down
         ELSE IF ~hasTotp
         THEN /\ sent' = RenderDownload(q, uuid, MsgTotpRequired)
              /\ UNCHANGED down
         ELSE /\ sent' = NoResp
              /\ down' = [down EXCEPT ![q] = [pc |-> "find", uuid |-> uuid]]
    /\ UNCHANGED <<now, ENCRYPTION_KEY, captchas, files, blobs, nextKey, faulty, up>>
    /\ UNCHANGED aux

\* What the handler answers once fileModel.findByUuid has resolved with the
\* row of uuid (or none): the code check, the blob read, the decryption.
DownloadOutcomes(q, uuid, totp) ==
    IF uuid \notin DOMAIN files
    THEN {RenderDownload(q, uuid, MsgFileNotFound)}
    ELSE IF ~verifyToken(files[uuid].totp_secret, totp, totpWindow)
    THEN {RenderDownload(q, uuid, MsgInvalidTotp)}
    ELSE IF ~fileExists(blobs, uuid)
    THEN {RenderDownload(q, uuid, MsgDownloadError)}
    ELSE LET o == decryptFile(readFile(blobs, uuid))
         IN  { IF o.ok
               THEN SendFile(q, uuid, totp, files[uuid].filename, o.bytes)
               ELSE IF o.code = "ERR_OSSL_BAD_DECRYPT"
               THEN RenderDownload(q, uuid, MsgKeyChanged)
               ELSE RenderDownload(q, uuid, MsgDecryptError) }

\* (a handler that serves a file once: the record and the blob are removed
\* when the file has been sent)
DownloadAnswer_OneTime(q, fail, totp) ==
    /\ down[q].pc = "find"
    /\ down' = [down EXCEPT ![q] = IdleDownload]
    /\ IF fail
       THEN /\ sent' = RenderDownload(q, down[q].uuid, MsgDownloadError)
       ELSE sent' \in DownloadOutcomes(q, down[q].uuid, totp)
    /\ IF sent'.view = "file"
       THEN /\ files' = Remove(files, down[q].uuid)
            /\ blobs' = deleteFile(blobs, down[q].uuid)
       ELSE UNCHANGED <<files, blobs>>
    /\ UNCHANGED <<now, ENCRYPTION_KEY, captchas, nextKey, up, faulty>>
    /\ UNCHANGED <<cleanupInterval, timers, sweep, img>>
\* await fileModel.findByUuid(uuid) resolves (or rejects, when fail) and the
\* handler runs to its end with the code totp of the request.
DownloadAnswer(q, fail, totp) ==
    /\ down[q].pc = "find"
    /\ down' = [down EXCEPT ![q] = IdleDownload]
    /\ IF fail
       THEN /\ sent' = RenderDownload(q, down[q].uuid, MsgDownloadError)
       ELSE sent' \in DownloadOutcomes(q, down[q].uuid, totp)
    /\ UNCHANGED <<now, ENCRYPTION_KEY, captchas, files, blobs, nextKey, up, faulty>>
    /\ UNCHANGED <<cleanupInterval, timers, sweep, img>>

DownloadFind(q) ==
    /\ \E fail \in FaultChoice, totp \in TotpInputs \ {NoTotp} :
         DownloadAnswer(q, fail, totp)
    /\ UNCHANGED <<served, probe>>

\* The same step with its history written down: the request that was
\* answered, and how often each (identifier, code) has been served.
MaxServed == 2
DownloadFindRecorded(q) ==
    \E fail \in FaultChoice, totp \in TotpInputs \ {NoTotp} :
        /\ DownloadAnswer(q, fail, totp)
        /\ probe' = [op |-> "downloadFile", uuid |-> down[q].uuid, totp |-> totp]
        /\ LET pair == <<down[q].uuid, totp>>
               n == IF pair \in DOMAIN served THEN served[pair] ELSE 0
           IN  served' = IF sent'.view = "file" /\ n < MaxServed
                         THEN Put(served, pair, n + 1)
                         ELSE served

\* ------------------------------------------------- captchaCleanupService
\* startCaptchaCleanup(config) with config.captcha.cleanupIntervalMs =
\* intervalMs: does nothing when a timer is held, else setInterval
\* (a start that does not look at the handle it holds)
startCaptchaCleanupWith_Unguarded(intervalMs) ==
    /\ LET id == CHOOSE i \in 1..(Cardinality(timers) + 1) : i \notin {t.id : t \in timers}
           timer == [id |-> id, intervalMs |-> intervalMs]
       IN  /\ timers' = timers \cup {timer}
           /\ cleanupInterval' = timer
    /\ sent' = NoResp
    /\ UNCHANGED <<now, ENCRYPTION_KEY, captchas, files, blobs, nextKey, faulty, up, down>>
    /\ UNCHANGED <<sweep, served, img>>
startCaptchaCleanupWith(intervalMs) ==
    /\ IF cleanupInterval # NoTimer
       THEN UNCHANGED <<cleanupInterval, timers>>
       ELSE LET id == CHOOSE i \in 1..(Cardinality(timers) + 1) : i \notin {t.id : t \in timers}
                timer == [id |-> id, intervalMs |-> intervalMs]
            IN  /\ timers' = timers \cup {timer}
                /\ cleanupInterval' = timer
    /\ sent' = NoResp
    /\ UNCHANGED <<now, ENCRYPTION_KEY, captchas, files, blobs, nextKey, faulty, up, down>>
    /\ UNCHANGED <<sweep, served, img>>

startCaptchaCleanup ==
    /\ \E intervalMs \in CleanupIntervals : startCaptchaCleanupWith(intervalMs)
    /\ UNCHANGED probe

\* The same call with its argument written down, and whether a timer was
\* held when it was made.
startCaptchaCleanupRecorded ==
    \E intervalMs \in CleanupIntervals :
        /\ startCaptchaCleanupWith(intervalMs)
        /\ probe' = [op |-> "startCaptchaCleanup", intervalMs |-> intervalMs,
                     running |-> cleanupInterval # NoTimer]

\* stopCaptchaCleanup: clearInterval of the timer held, if one is held
stopCaptchaCleanupCall ==
    /\ IF cleanupInterval # NoTimer
       THEN /\ timers' = timers \ {cleanupInterval}
            /\ cleanupInterval' = NoTimer
       ELSE UNCHANGED <<cleanupInterval, timers>>
    /\ sent' = NoResp
    /\ UNCHANGED <<now, ENCRYPTION_KEY, captchas, files, blobs, nextKey, faulty, up, down>>
    /\ UNCHANGED <<sweep, served, img>>

stopCaptchaCleanup == stopCaptchaCleanupCall /\ UNCHANGED probe

stopCaptchaCleanupRecorded ==
    /\ stopCaptchaCleanupCall
    /\ probe' = [op |-> "stopCaptchaCleanup", running |-> cleanupInterval # NoTimer]

\* An active timer fires: cleanExpiredCaptchas calls captchaModel.cleanExpired,
\* which computes cutoffTime = Date.now() - expiryMs and awaits the DELETE.
\* (One sweep is followed at a time.)
SweepFire ==
    /\ timers # {}
    /\ sweep.pc = "idle"
    /\ sweep' = [pc |-> "delete", at |-> now, cutoffTime |-> now - captchaExpiryMs,
                 deleted |-> NotLogged, remaining |-> NotLogged]
    /\ sent' = NoResp
    /\ UNCHANGED <<now, ENCRYPTION_KEY, captchas, files, blobs, nextKey, faulty, up, down>>
    /\ UNCHANGED <<cleanupInterval, timers, served, img, probe>>

\* The DELETE executes and resolves with its changes, or rejects: the
\* rejection is caught and logged.
SweepDelete ==
    /\ sweep.pc = "delete"
    /\ \E fail \in FaultChoice :
         IF fail
         THEN /\ sweep' = IdleSweep
              /\ UNCHANGED captchas
         ELSE /\ captchas' = captchaModelCleanExpired(captchas, sweep.cutoffTime)
              /\ sweep' = [sweep EXCEPT !.pc = "count",
                                         !.deleted = changes(captchas, captchas')]
    /\ sent' = NoResp
    /\ UNCHANGED <<now, ENCRYPTION_KEY, files, blobs, nextKey, faulty, up, down>>
    /\ UNCHANGED <<cleanupInterval, timers, served, img, probe>>

\* await captchaModel.count() resolves and the numbers are logged, or it
\* rejects and the error is logged.
SweepCount ==
    /\ sweep.pc = "count"
    /\ \E fail \in FaultChoice :
         IF fail
         THEN sweep' = IdleSweep
         ELSE sweep' = [IdleSweep EXCEPT !.deleted = sweep.deleted,
                                         !.remaining = captchaModelCount(captchas)]
    /\ sent' = NoResp
    /\ UNCHANGED <<now, ENCRYPTION_KEY, captchas, files, blobs, nextKey, faulty, up, down>>
    /\ UNCHANGED <<cleanupInterval, timers, served, img, probe>>

\* ------------------------------------------------------------------- spec
\* --------------------------------------- viewController.serveCaptchaImage
MsgImageNotFound == <<"Captcha not found or expired">>
MsgImageExpired == <<"Captcha expired">>
MsgImageError == <<"Error generating captcha image">>
\* res.status(status).send(text)
SendStatus(status, text) == [NoResp EXCEPT !.to = "image", !.view = status, !.error = text]
\* res.setHeader('Content-Type', 'image/png'); res.send(buffer): the drawing
\* of the text stored under key
SendImage(key) == [NoResp EXCEPT !.to = "image", !.view = "image/png", !.captchaKey = key]

\* Entry to the first await, with the key of the route.
ImageStart ==
    /\ img.pc = "idle"
    /\ \E key \in {UnknownKey} \cup IssuedKeys :
         img' = [img EXCEPT !.pc = "find", !.key = key]
    /\ sent' = NoResp
    /\ UNCHANGED <<now, ENCRYPTION_KEY, captchas, files, blobs, nextKey, faulty, up, down>>
    /\ UNCHANGED <<cleanupInterval, timers, sweep, served, probe>>

\* await captchaModel.findByKey(key) resolves: not found, expired (the
\* handler reaches await captchaModel.delete), or the image is drawn and sent.
ImageFind ==
    /\ img.pc = "find"
    /\ \E fail \in FaultChoice :
         IF fail
         THEN /\ sent' = SendStatus("500", MsgImageError)
              /\ img' = [img EXCEPT !.pc = "idle", !.key = NoKey]
         ELSE LET captcha == captchaModelFindByKey(captchas, img.key) IN
              IF captcha = NoRow
              THEN /\ sent' = SendStatus("404", MsgImageNotFound)
                   /\ img' = [img EXCEPT !.pc = "idle", !.key = NoKey]
              ELSE IF isExpired(captcha.created_at, captchaExpiryMs)
              THEN /\ sent' = NoResp
                   /\ img' = [img EXCEPT !.pc = "delete"]
              ELSE /\ sent' = SendImage(img.key)
                   /\ img' = [img EXCEPT !.pc = "idle", !.key = NoKey,
                                         !.shown = @ \cup {img.key}]
    /\ UNCHANGED <<now, ENCRYPTION_KEY, captchas, files, blobs, nextKey, faulty, up, down>>
    /\ UNCHANGED <<cleanupInterval, timers, sweep, served, probe>>

\* await captchaModel.delete(key) resolves and 'Captcha expired' is sent.
ImageDelete ==
    /\ img.pc = "delete"
    /\ \E fail \in FaultChoice :
         IF fail
         THEN /\ sent' = SendStatus("500", MsgImageError)
              /\ UNCHANGED captchas
         ELSE /\ captchas' = captchaModelDelete(captchas, img.key)
              /\ sent' = SendStatus("404", MsgImageExpired)
    /\ img' = [img EXCEPT !.pc = "idle", !.key = NoKey]
    /\ UNCHANGED <<now, ENCRYPTION_KEY, files, blobs, nextKey, faulty, up, down>>
    /\ UNCHANGED <<cleanupInterval, timers, sweep, served, probe>>

\* ----------------------------------------- fileController.showDownloadPage
\* res.render('download', { uuid, error: null }): nothing is read or written
ShowDownloadPage ==
    /\ \E uuid \in UUIDs \cup {MalformedUuid} :
         sent' = RenderDownload("page", uuid, <<>>)
    /\ UNCHANGED <<now, ENCRYPTION_KEY, captchas, files, blobs, nextKey, faulty, up, down>>
    /\ UNCHANGED aux

\* ------------------------------- fileController.updateFile / deleteFile
MsgUpdateNotImplemented == <<"Update operation not implemented">>
MsgDeleteNotImplemented == <<"Delete operation not implemented">>
\* res.status(501).json({ error })
Json501(to, error) == [NoResp EXCEPT !.to = to, !.view = "json 501", !.error = error]

UpdateFile ==
    /\ sent' = Json501("update", MsgUpdateNotImplemented)
    /\ UNCHANGED <<now, ENCRYPTION_KEY, captchas, files, blobs, nextKey, faulty, up, down>>
    /\ UNCHANGED aux

DeleteFile ==
    /\ sent' = Json501("delete", MsgDeleteNotImplemented)
    /\ UNCHANGED <<now, ENCRYPTION_KEY, captchas, files, blobs, nextKey, faulty, up, down>>
    /\ UNCHANGED aux

Next ==
    \/ Tick
    \/ ShowHomePage
    \/ \E r \in Uploads : UploadStart(r)
    \/ \E r \in Uploads : UploadFind(r)
    \/ \E r \in Uploads : UploadDelete(r)
    \/ \E r \in Uploads : UploadInsert(r)
    \/ \E r \in Uploads : UploadRegen(r)
    \/ \E r \in Uploads : UploadCatch(r)
    \/ \E q \in Downloads : DownloadStart(q)
    \/ \E q \in Downloads : DownloadFind(q)

Spec == Init /\ [][Next]_vars
SpecReliable == InitReliable /\ [][Next]_vars

\* Every operation of the file controller and the home page, over the store
\* whose operations may reject, at one point in time.
NextPages ==
    \/ ShowHomePage
    \/ \E r \in Uploads : UploadStart(r)
    \/ \E r \in Uploads : UploadFind(r)
    \/ \E r \in Uploads : UploadDelete(r)
    \/ \E r \in Uploads : UploadInsert(r)
    \/ \E r \in Uploads : UploadRegen(r)
    \/ \E r \in Uploads : UploadCatch(r)
    \/ ShowDownloadPage
    \/ \E q \in Downloads : DownloadStart(q)
    \/ \E q \in Downloads : DownloadFind(q)
    \/ UpdateFile
    \/ DeleteFile
SpecPages == Init /\ [][NextPages]_vars

\* One upload request whose fields are all known when it arrives, and a
\* second upload beside it, with the home page and the clock, over a store
\* whose operations do not reject.
NextOrder ==
    \/ Tick
    \/ ShowHomePage
    \/ UploadStartRecorded("u1")
    \/ UploadFindRecorded("u1")
    \/ UploadDeleteRecorded("u1")
    \/ UploadStart("u2")
    \/ UploadFind("u2")
    \/ UploadDelete("u2")
    \/ \E r \in Uploads : UploadInsert(r)
    \/ \E r \in Uploads : UploadRegen(r)
SpecOrder == InitReliable /\ [][NextOrder]_vars

\* Requests for a challenge image beside the home page, one upload and the
\* clock, over a store whose operations do not reject.
NextImage ==
    \/ Tick
    \/ ShowHomePage
    \/ UploadStart("u1")
    \/ UploadFind("u1")
    \/ UploadDelete("u1")
    \/ UploadInsert("u1")
    \/ UploadRegen("u1")
    \/ ImageStart
    \/ ImageFind
    \/ ImageDelete
SpecImage == InitReliable /\ [][NextImage]_vars

\* One upload and the downloads that follow it while the clock runs on,
\* over a store whose operations do not reject.
NextDownload ==
    \/ TickLate
    \/ ShowHomePage
    \/ UploadStart("u1")
    \/ UploadFind("u1")
    \/ UploadDelete("u1")
    \/ UploadInsert("u1")
    \/ UploadRegen("u1")
    \/ \E q \in Downloads : DownloadStart(q)
    \/ \E q \in Downloads : DownloadFindRecorded(q)
SpecDownload == InitReliable /\ [][NextDownload]_vars

\* Uploads, restarts of the process under the same or another key, and
\* downloads, over a store whose operations do not reject.
NextRotation ==
    \/ ShowHomePage
    \/ \E r \in Uploads : UploadStart(r)
    \/ \E r \in Uploads : UploadFind(r)
    \/ \E r \in Uploads : UploadDelete(r)
    \/ \E r \in Uploads : UploadInsert(r)
    \/ \E r \in Uploads : UploadRegen(r)
    \/ Restart
    \/ \E q \in Downloads : DownloadStart(q)
    \/ \E q \in Downloads : DownloadFindRecorded(q)
SpecRotation == InitReliable /\ [][NextRotation]_vars

\* The codec and its key configuration: the module is loaded with no key,
\* setupEncryption is called with or without an environment key and a
\* configured key, and encryptFile and decryptFile are called at any time.
InitUnconfigured ==
    /\ now = 0
    /\ ENCRYPTION_KEY = NoKey
    /\ captchas = Empty
    /\ files = Empty
    /\ blobs = Empty
    /\ nextKey = 1
    /\ faulty = FALSE
    /\ up = [r \in Uploads |-> IdleUpload]
    /\ down = [q \in Downloads |-> IdleDownload]
    /\ sent = NoResp
    /\ cleanupInterval = NoTimer
    /\ timers = {}
    /\ sweep = IdleSweep
    /\ served = Empty
    /\ img = IdleImage
    /\ probe = NoCall

frame == <<now, captchas, files, blobs, nextKey, faulty, up, down, sent,
           cleanupInterval, timers, sweep, served, img>>

SetupEncryption ==
    /\ \E envKey \in Keys \cup {NoKey}, configKey \in Keys \cup {NoKey} :
         LET key == setupEncryptionKey(envKey, configKey) IN
         /\ ENCRYPTION_KEY' = IF key = NoKey THEN ENCRYPTION_KEY ELSE key
         /\ probe' = [op |-> "setupEncryption", envKey |-> envKey, configKey |-> configKey,
                      threw |-> IF key = NoKey THEN MsgKeyNotConfigured ELSE <<>>]
    /\ UNCHANGED frame

KeyEncrypt ==
    /\ \E buffer \in Buffers \cup {NoBytes}, iv \in CodecIVs :
         probe' = [op |-> "encryptFile", out |-> serviceEncryptFile(buffer, iv)]
    /\ UNCHANGED <<ENCRYPTION_KEY, frame>>

KeyDecrypt ==
    /\ \E buffer \in StoredBlobs :
         probe' = [op |-> "decryptFile", out |-> serviceDecryptFile(buffer)]
    /\ UNCHANGED <<ENCRYPTION_KEY, frame>>

NextKeyConfig ==
    \/ SetupEncryption
    \/ KeyEncrypt
    \/ KeyDecrypt
SpecKeyConfig == InitUnconfigured /\ [][NextKeyConfig]_vars

\* captchaService.verify on its own: one call with every pair of a submitted
\* and a stored answer of up to MaxAnswerLen characters, missing ones included.
VerifyCall ==
    /\ probe = NoCall
    /\ \E userAnswer \in VerifyInputs, storedAnswer \in VerifyInputs :
         probe' = [op |-> "verify", userAnswer |-> userAnswer,
                   storedAnswer |-> storedAnswer,
                   result |-> verify(userAnswer, storedAnswer)]
    /\ UNCHANGED <<handlers, blobs>>
NextVerify == VerifyCall
SpecVerify == InitReliable /\ [][NextVerify]_vars

\* The codec on its own under one configured key: a buffer is encrypted under
\* a fresh iv, and the blob that was returned is decrypted.
InitCodec ==
    /\ now = 0
    /\ ENCRYPTION_KEY \in Keys
    /\ captchas = Empty
    /\ files = Empty
    /\ blobs = Empty
    /\ nextKey = 1
    /\ faulty = FALSE
    /\ up = [r \in Uploads |-> IdleUpload]
    /\ down = [q \in Downloads |-> IdleDownload]
    /\ sent = NoResp
    /\ cleanupInterval = NoTimer
    /\ timers = {}
    /\ sweep = IdleSweep
    /\ served = Empty
    /\ img = IdleImage
    /\ probe = NoCall

CodecEncrypt ==
    /\ probe = NoCall
    /\ \E buffer \in CodecBuffers, iv \in CodecIVs :
         probe' = [op |-> "encryptFile", buffer |-> buffer, iv |-> iv,
                   blob |-> encryptFile(buffer, iv),
                   out |-> [ok |-> FALSE, bytes |-> NoBytes, code |-> ""]]
    /\ UNCHANGED <<handlers, blobs>>

CodecDecrypt ==
    /\ probe.op = "encryptFile"
    /\ probe' = [probe EXCEPT !.op = "decryptFile", !.out = decryptFile(probe.blob)]
    /\ UNCHANGED <<handlers, blobs>>

NextCodec ==
    \/ CodecEncrypt
    \/ CodecDecrypt
SpecCodec == InitCodec /\ [][NextCodec]_vars

\* The blob store on its own, called with every identifier value.
NextStorage ==
    \/ StorageSave
    \/ StorageRead
    \/ StorageDelete
    \/ StorageExists
SpecStorage == InitReliable /\ [][NextStorage]_vars

\* The sweep task beside the home page and one upload, over a store whose
\* operations do not reject.  (With one upload and no rejection the catch
\* block of the upload is never entered.)
Sweep == SweepFire \/ SweepDelete \/ SweepCount
NextSweep ==
    \/ Tick
    \/ ShowHomePage
    \/ UploadStart("u1")
    \/ UploadFind("u1")
    \/ UploadDelete("u1")
    \/ UploadInsert("u1")
    \/ UploadRegen("u1")
    \/ startCaptchaCleanup
    \/ stopCaptchaCleanup
    \/ SweepFire
    \/ SweepDelete
    \/ SweepCount
SpecSweep == InitReliable /\ [][NextSweep]_vars
\* The sweep task started and stopped at any time, each call written down,
\* beside the home page and the clock.
NextLifecycle ==
    \/ Tick
    \/ ShowHomePage
    \/ startCaptchaCleanupRecorded
    \/ stopCaptchaCleanupRecorded
    \/ SweepFire
    \/ SweepDelete
    \/ SweepCount
SpecLifecycle == InitReliable /\ [][NextLifecycle]_vars
\* ... with the event loop running every sweep step that stays possible
SpecSweepLive == SpecSweep /\ WF_vars(Sweep)

\* ================================================================= claims
Range(f) == {f[i] : i \in DOMAIN f}
\* the submitted code is one the secret yields within the tolerance now
CodeValidFor(secret, code) ==
    \E c \in (Counter(now) - totpWindow)..(Counter(now) + totpWindow) :
        code = <<secret, c>>

C2_VerifiedOnce ==
    \A r1, r2 \in Uploads :
        (r1 # r2 /\ up[r1].passed /\ up[r2].passed)
            => up[r1].captchaKey # up[r2].captchaKey

\* C3 (download authorization): a download response carries file bytes only
\* when the identifier has the token shape, a record for it exists and the
\* submitted code is valid for that record's own secret; every other
\* download response carries no bytes.
C3_DownloadAuthorized ==
    /\ sent.view = "file" =>
          /\ sent.to \in Downloads
          /\ uuidRegexTest(sent.param)
          /\ sent.param \in DOMAIN files
          /\ CodeValidFor(files[sent.param].totp_secret, sent.totp)
    /\ sent.view # "file" => sent.body = NoBytes
\* a download has been answered with file bytes
C3_Witness == sent.view = "file" /\ sent.body \in Buffers

\* C4 (end-to-end round trip): when a download of the identifier of a
\* succeeded upload, with a code valid for that upload's secret, is answered
\* with a file, the bytes and the display name are those of the upload.
C4_RoundTrip ==
    \A r \in Uploads :
        ( /\ Succeeded(r)
          /\ sent.view = "file"
          /\ sent.param = up[r].uuid
          /\ CodeValidFor(generateSecret(r), sent.totp) )
        => sent.body = up[r].buffer /\ sent.filename = up[r].fileName

\* C5 (success only when persisted): the success page is rendered only for
\* an identifier whose blob write and record insert both succeeded, and an
\* upload whose blob write or record insert failed ends with an error
\* response to the client.
C5_SuccessOnlyIfPersisted ==
    [][ \A r \in Uploads :
          /\ (sent'.to = r /\ sent'.view = "upload-success") =>
                /\ ~up[r].persistFailed
                /\ sent'.uuid \in DOMAIN files'
                /\ fileExists(blobs', sent'.uuid)
          /\ (up[r].persistFailed /\ up'[r].pc \in {"done", "unhandled"}) =>
                /\ sent'.to = r /\ sent'.view = "index" /\ sent'.error # <<>>
      ]_vars

\* C6 (record/blob invariant): when no upload is in the middle of its
\* pipeline, the identifiers that have a stored blob are exactly the
\* identifiers that have a record.
C6_BlobsMatchRecords ==
    (\A r \in Uploads : ~InFlight(r)) => DOMAIN blobs = DOMAIN files

\* C7 (fresh challenge on every early exit): a response of an upload with
\* the message of an early-exit branch carries the token of a challenge
\* that the same step stored and that was not stored before.
C7_FreshChallenge ==
    [][ \A r \in Uploads :
          (sent'.to = r /\ sent'.view = "index" /\ sent'.error \in EarlyExitMessages) =>
              /\ sent'.captchaKey # NoKey
              /\ sent'.captchaKey \notin DOMAIN captchas
              /\ sent'.captchaKey \in DOMAIN captchas'
      ]_vars
\* an upload has been answered from the deepest early exit, with a stored token
C7_Witness ==
    /\ sent.to \in Uploads /\ sent.view = "index" /\ sent.error = MsgBadType
    /\ sent.captchaKey \in DOMAIN captchas

\* C8 (failures caught and made generic): when the upload handler leaves
\* its catch block, it has answered with the form, a newly stored challenge
\* and a text that holds nothing of the failure's own message.
C8_CaughtAndGeneric ==
    [][ \A r \in Uploads :
          (up[r].pc = "catch" /\ up'[r].pc # "catch") =>
              /\ sent'.to = r /\ sent'.view = "index"
              /\ sent'.captchaKey \in DOMAIN captchas' \ DOMAIN captchas
              /\ Range(sent'.error) \cap Range(up[r].err) = {}
      ]_vars

\* C9 (exactly one response): a handler that has ended has sent exactly one
\* response; none ends with its promise rejected.
C9_OneResponse ==
    \A r \in Uploads :
        /\ up[r].pc # "unhandled"
        /\ Finished(r) => up[r].responses = 1

\* C10 (no internal detail in errors): no part of an error text sent to the
\* client is the message of an underlying error, a storage path, a
\* generated identifier or a secret.
InternalDetail ==
    Range(DbError) \cup Range(ConstraintError) \cup {uploadsDir} \cup UUIDs \cup Secrets
C10_NoInternalDetail ==
    sent.error # <<>> => Range(sent.error) \cap InternalDetail = {}

\* C11 (expiry boundary): when the lookup of an upload finds the challenge
\* created at T, the upload passes the expiry check at every time up to
\* and including T + captchaExpiryMs, and heads for the "expired" exit at
\* every later time.
C11_ExpiryBoundary ==
    [][ \A r \in Uploads :
          (up[r].pc = "find" /\ up'[r].pc = "delete") =>
              LET T == captchas[up[r].captchaKey].created_at
              IN  /\ now <= T + captchaExpiryMs => up'[r].next # MsgExpired
                  /\ now > T + captchaExpiryMs => up'[r].next = MsgExpired
      ]_vars
\* an upload has passed the checks exactly at T + captchaExpiryMs
C11_Witness ==
    \E r \in Uploads :
        /\ up[r].pc = "delete" /\ up[r].next = <<>>
        /\ up[r].captchaKey \in DOMAIN captchas
        /\ now = captchas[up[r].captchaKey].created_at + captchaExpiryMs
\* C12 (sweep agrees with the per-request expiry check): the DELETE of a
\* sweep called at time t removes exactly the stored challenges with
\* t > created_at + captchaExpiryMs, leaves every other row as it was, and
\* resolves with the number of rows it removed.
C12_SweepAgrees ==
    [][ (sweep.pc = "delete" /\ sweep'.pc = "count") =>
          LET t == sweep.at
              expired == {k \in DOMAIN captchas :
                            t > captchas[k].created_at + captchaExpiryMs}
          IN  /\ DOMAIN captchas' = DOMAIN captchas \ expired
              /\ \A k \in DOMAIN captchas' : captchas'[k] = captchas[k]
              /\ sweep'.deleted = Cardinality(expired)
      ]_vars
\* a sweep has removed a row and left another
C12_Witness ==
    sweep.pc = "count" /\ sweep.deleted >= 1 /\ DOMAIN captchas # {}

\* C13 (eventual eviction): a stored challenge whose expiry time has passed
\* is eventually deleted, or the sweep task is no longer running.
C13_EventualEviction ==
    \A k \in 1..MaxKeys :
        (k \in DOMAIN captchas /\ now > captchas[k].created_at + captchaExpiryMs)
            ~> (k \notin DOMAIN captchas \/ timers = {})
\* a finished sweep has logged that it removed a row
C13_Witness ==
    sweep.pc = "idle" /\ sweep.deleted >= 1 /\ timers # {}

\* C14 (sweep interleaved with an upload): the upload never enters its
\* failure path and ends with one of its defined responses; its delete of a
\* row that is already gone changes nothing and the handler goes on; once
\* the upload that found the challenge has ended, that challenge is absent;
\* and every row the sweep's DELETE removes is expired when it is removed.
C14_SweepSafe ==
    [][ /\ \A r \in Uploads :
              /\ up'[r].pc \notin {"catch", "unhandled"}
              /\ (up[r].pc # "done" /\ up'[r].pc = "done") =>
                    /\ sent'.to = r
                    /\ sent'.view = "upload-success" \/ sent'.error \in EarlyExitMessages
              /\ ( /\ up[r].pc = "delete" /\ up'[r].pc # "delete"
                   /\ up[r].captchaKey \notin DOMAIN captchas ) =>
                    /\ captchas' = captchas
                    /\ up'[r].pc \in {"regen", "insert"}
              /\ (up'[r].pc = "done" /\ up'[r].reached) =>
                    up'[r].captchaKey \notin DOMAIN captchas'
        /\ (sweep.pc = "delete" /\ sweep'.pc # "delete") =>
              \A k \in DOMAIN captchas \ DOMAIN captchas' :
                  now > captchas[k].created_at + captchaExpiryMs
      ]_vars
\* the sweep has removed the challenge of an upload that awaits its own
\* delete of it, and has left a newer challenge
C14_Witness ==
    /\ up["u1"].pc = "delete"
    /\ up["u1"].captchaKey \notin DOMAIN captchas
    /\ sweep.pc = "count" /\ sweep.deleted >= 1

\* the response on the wire is the answer of the download whose record
\* lookup was last written down (not a format or "code required" rejection)
AnsweredLookup ==
    /\ probe.op = "downloadFile"
    /\ sent.to \in Downloads /\ sent.param = probe.uuid
    /\ sent.error \notin {MsgInvalidUuid, MsgTotpRequired}

\* C15 (code tolerance): a download of a stored identifier whose code was
\* derived from the record's secret for time window W is answered with the
\* file when the check happens in a window from W-2 to W+2, and with
\* "Invalid TOTP code" when it happens in a window outside that range.
C15_CodeTolerance ==
    \A W \in TotpCounters :
        ( /\ AnsweredLookup
          /\ probe.uuid \in DOMAIN files
          /\ probe.totp = <<files[probe.uuid].totp_secret, W>> )
        => LET C == now \div TotpStep
           IN  /\ (W - 2 <= C /\ C <= W + 2) => sent.view = "file"
               /\ (C < W - 2 \/ C > W + 2) =>
                      sent.view = "download" /\ sent.error = MsgInvalidTotp
\* a code of window W has been accepted in window W-2
C15_Witness ==
    /\ AnsweredLookup /\ sent.view = "file"
    /\ probe.uuid \in DOMAIN files
    /\ \E W \in TotpCounters :
          /\ probe.totp = <<files[probe.uuid].totp_secret, W>>
          /\ now \div TotpStep = W - 2

\* C16 (a code is not consumed): once a download of identifier I with code
\* c has been served, the record and the blob of I stay in place and every
\* further download of I with c is served too, as long as c is within the
\* tolerance of the current window.
C16_CodeNotConsumed ==
    \A pair \in DOMAIN served :
        /\ pair[1] \in DOMAIN files /\ pair[1] \in DOMAIN blobs
        /\ ( /\ AnsweredLookup
             /\ probe.uuid = pair[1] /\ probe.totp = pair[2]
             /\ CodeValidFor(files[pair[1]].totp_secret, pair[2]) )
           => sent.view = "file"
\* the same code has been served twice for one identifier, in two windows
C16_Witness ==
    /\ AnsweredLookup /\ sent.view = "file"
    /\ <<probe.uuid, probe.totp>> \in DOMAIN served
    /\ served[<<probe.uuid, probe.totp>>] >= 2
    /\ probe.totp[2] # now \div TotpStep

\* C17 (download check order): only an identifier of the token shape ever
\* reaches the record lookup; a download with any other identifier is
\* answered "Invalid UUID format" by the step that receives it, whether or
\* not it carries a code, and "TOTP code is required" answers a well-formed
\* identifier, again by the receiving step; once the lookup is under way
\* neither of the two answers is given.
C17_CheckOrder ==
    [][ \A q \in Downloads :
          /\ down'[q].pc = "find" => down'[q].uuid \in UUIDs
          /\ probe'.op = "downloadFile" => probe'.uuid \in UUIDs
          /\ (sent'.to = q /\ sent'.param \notin UUIDs) =>
                /\ sent'.view = "download" /\ sent'.error = MsgInvalidUuid
                /\ sent'.body = NoBytes
                /\ down[q].pc = "idle" /\ down'[q].pc = "idle"
          /\ (sent'.to = q /\ sent'.error = MsgTotpRequired) =>
                /\ sent'.view = "download" /\ sent'.param \in UUIDs
                /\ down[q].pc = "idle" /\ down'[q].pc = "idle"
          /\ (down[q].pc = "find" /\ sent'.to = q) =>
                sent'.error \notin {MsgInvalidUuid, MsgTotpRequired}
      ]_vars
\* a malformed identifier has been answered with the format error after a
\* lookup for a well-formed one had been served
C17_Witness ==
    /\ sent.to \in Downloads /\ sent.param = MalformedUuid
    /\ sent.error = MsgInvalidUuid
    /\ probe.op = "downloadFile" /\ served # Empty

\* C18 (decryption after key rotation): a download with a valid code of a
\* blob that was encrypted under a key other than the process key is
\* answered with the "key may have changed since upload" message, and not
\* with the generic failure message or with bytes.
C18_KeyRotationMessage ==
    \A K1 \in Keys, B \in Buffers, iv \in IVs :
        ( /\ AnsweredLookup
          /\ probe.uuid \in DOMAIN files /\ probe.uuid \in DOMAIN blobs
          /\ CodeValidFor(files[probe.uuid].totp_secret, probe.totp)
          /\ blobs[probe.uuid] = iv \o cipherUpdate(K1, iv, pkcs7Pad(B))
          /\ K1 # ENCRYPTION_KEY )
        => /\ sent.view = "download" /\ sent.error = MsgKeyChanged
           /\ sent.body = NoBytes

\* C19 (path safety): whatever identifier value the blob store's save, read,
\* delete or exists operation is called with, the path it accesses is the
\* storage root or lies below it.
C19_PathSafety ==
    probe.op \in {"saveFile", "readFile", "deleteFile", "fileExists"} =>
        probe.path # <<>> /\ probe.path[1] = uploadsDir

\* C20 (codec round trip): under one key, the blob returned for a buffer is
\* the iv of the configured length followed by a non-empty ciphertext of
\* whole blocks, and decrypting the blob returns the buffer, the empty
\* buffer included.
C20_RoundTrip ==
    /\ probe.op \in {"encryptFile", "decryptFile"} =>
          /\ Len(probe.iv) = IV_LENGTH
          /\ Len(probe.blob) > IV_LENGTH
          /\ SubSeq(probe.blob, 1, IV_LENGTH) = probe.iv
          /\ (Len(probe.blob) - IV_LENGTH) % BlockLen = 0
    /\ probe.op = "decryptFile" =>
          /\ probe.out.ok
          /\ probe.out.bytes = probe.buffer
\* the empty buffer has made the round trip
C20_Witness ==
    /\ probe.op = "decryptFile" /\ probe.buffer = <<>>
    /\ probe.out.ok /\ probe.out.bytes = <<>>

\* the texts a response carries
Shown(resp) ==
    {resp.totpSecret, resp.uuid, resp.param, resp.filename} \cup Range(resp.error)

\* C21 (the secret is shown once): a response that carries the secret of a
\* stored artifact is the success page of the upload that created the
\* artifact, the one response of that upload; the download page, every
\* download answer, the home page and every error page carry no stored
\* secret.
C21_SecretShownOnce ==
    \A u \in DOMAIN files :
        files[u].totp_secret \in Shown(sent) =>
            /\ sent.view = "upload-success" /\ sent.to \in Uploads
            /\ sent.uuid = u /\ sent.totpSecret = files[u].totp_secret
            /\ up[sent.to].pc = "done" /\ up[sent.to].uuid = u
            /\ up[sent.to].responses = 1
\* a download of a stored artifact has been answered
C21_Witness ==
    /\ sent.to \in Downloads /\ sent.param \in DOMAIN files
    /\ sent.view \in {"download", "file"}

\* C22 (artifact records are immutable): no step of any controller operation
\* removes an artifact record or changes its display name or secret, and a
\* step that answers "not implemented" (updateFile, deleteFile) changes
\* nothing but the response.
C22_RecordsImmutable ==
    [][ /\ \A u \in DOMAIN files : u \in DOMAIN files' /\ files'[u] = files[u]
        /\ sent'.view = "json 501" =>
              /\ sent'.error \in {MsgUpdateNotImplemented, MsgDeleteNotImplemented}
              /\ UNCHANGED <<now, ENCRYPTION_KEY, captchas, files, blobs, nextKey, up, down>>
      ]_vars
\* deleteFile has answered while two artifacts were stored
C22_Witness ==
    /\ sent.view = "json 501" /\ sent.error = MsgDeleteNotImplemented
    /\ Cardinality(DOMAIN files) = 2

\* two characters that are the same letter in either case
SameLetter(c, d) == c = d \/ {c, d} = {"a", "A"} \/ {c, d} = {"b", "B"}
\* a text without the spaces around it
Core(x) ==
    LET idx == {i \in 1..Len(x) : x[i] # " "}
    IN  IF idx = {} THEN <<>>
        ELSE SubSeq(x, CHOOSE i \in idx : \A j \in idx : i <= j,
                       CHOOSE i \in idx : \A j \in idx : i >= j)

\* C23 (answer verification): verify returns false when the submitted or the
\* stored answer is missing or empty, and otherwise returns true exactly
\* when the two are the same text once surrounding whitespace is dropped
\* and case is ignored.
C23_VerifyExact ==
    probe.op = "verify" =>
        LET u == probe.userAnswer
            s == probe.storedAnswer
        IN  /\ (u = <<>> \/ s = <<>>) => probe.result = FALSE
            /\ (u # <<>> /\ s # <<>>) =>
                  (probe.result <=>
                      /\ Len(Core(u)) = Len(Core(s))
                      /\ \A i \in 1..Len(Core(u)) : SameLetter(Core(u)[i], Core(s)[i]))
\* an answer in another case with spaces around it has been accepted
C23_Witness ==
    /\ probe.op = "verify" /\ probe.result = TRUE
    /\ probe.userAnswer = <<" ", "a", " ">> /\ probe.storedAnswer = <<"A">>

\* C24 (key configuration): setupEncryption takes the environment key when
\* there is one, otherwise the configured key, and throws, leaving no key
\* set, when there is neither; encryptFile and decryptFile called while no
\* key is set throw and return no bytes.
C24_KeyConfiguration ==
    /\ probe.op = "setupEncryption" =>
          /\ probe.envKey # NoKey =>
                probe.threw = <<>> /\ ENCRYPTION_KEY = probe.envKey
          /\ (probe.envKey = NoKey /\ probe.configKey # NoKey) =>
                probe.threw = <<>> /\ ENCRYPTION_KEY = probe.configKey
          /\ (probe.envKey = NoKey /\ probe.configKey = NoKey) =>
                probe.threw = MsgKeyNotConfigured
    /\ (probe.op \in {"encryptFile", "decryptFile"} /\ ENCRYPTION_KEY = NoKey) =>
          /\ ~probe.out.ok /\ probe.out.bytes = NoBytes
          /\ probe.out.message = MsgNotInitialized
    /\ (probe.op = "encryptFile" /\ ENCRYPTION_KEY # NoKey) => probe.out.ok
\* a setup without any key has thrown and left the codec without a key
C24_Witness ==
    /\ probe.op = "setupEncryption" /\ probe.threw = MsgKeyNotConfigured
    /\ ENCRYPTION_KEY = NoKey

\* two answers that are the same text, case and surrounding spaces ignored
SameAnswer(u, s) ==
    /\ Len(Core(u)) = Len(Core(s))
    /\ \A i \in 1..Len(Core(u)) : SameLetter(Core(u)[i], Core(s)[i])

\* C25 (upload check order): for a request with token k, answer a and form
\* f, each step of the handler settles the outcome by the first check that
\* fails, in the order presence, lookup, expiry, answer, file, content type:
\* a missing token or answer heads for "verification required"; an unknown
\* token for "not found"; an expired challenge for "expired" whatever the
\* answer and the form; a wrong answer for "incorrect" whatever the form;
\* only a request that passed all of these is checked for its file and then
\* for the file's type; an outcome once settled is not replaced, and it is
\* the error the response carries.
C25_UploadCheckOrder ==
    [][ LET u == up["u1"]
            v == up'["u1"]
        IN
        /\ (u.pc = "idle" /\ v.pc # "idle") =>
              IF probe'.captchaKey = NoKey \/ probe'.captchaAnswer = <<>>
              THEN v.pc = "regen" /\ v.next = MsgRequired
              ELSE v.pc = "find"
        /\ (u.pc = "find" /\ v.pc # "find") =>
              LET k == probe.captchaKey IN
              IF k \notin DOMAIN captchas
              THEN v.pc = "regen" /\ v.next = MsgNotFound
              ELSE /\ v.pc = "delete"
                   /\ v.next = IF now > captchas[k].created_at + captchaExpiryMs
                               THEN MsgExpired
                               ELSE IF ~SameAnswer(probe.captchaAnswer, captchas[k].text)
                               THEN MsgIncorrect
                               ELSE <<>>
        /\ (u.pc = "delete" /\ v.pc # "delete") =>
              IF u.next # <<>>
              THEN v.pc = "regen" /\ v.next = u.next
              ELSE IF probe.form.file = NoFile
              THEN v.pc = "regen" /\ v.next = MsgNoFile
              ELSE IF probe.form.file.mimetype \notin AllowedTypes
              THEN v.pc = "regen" /\ v.next = MsgBadType
              ELSE v.pc = "insert"
        /\ (u.pc = "regen" /\ v.pc # "regen") =>
              /\ v.pc = "done"
              /\ sent'.to = "u1" /\ sent'.view = "index" /\ sent'.error = u.next
      ]_vars
\* a request with an expired challenge, a wrong answer and no file has been
\* answered "expired"
C25_Witness ==
    /\ sent.to = "u1" /\ sent.error = MsgExpired
    /\ probe.op = "uploadFile" /\ probe.captchaAnswer = <<"b">>
    /\ probe.form.file = NoFile

\* C26 (rejected uploads leave the artifact store unchanged): no step of an
\* upload on its way to a rejection (required field missing, challenge not
\* found, expired or answered wrongly, no file, type not allowed) changes
\* the artifact records or the blobs; of the challenges, the entry and lookup
\* steps change none, the delete step removes the presented one and nothing
\* else, and the final step adds exactly the new one that the response names.
C26_RejectionFrame ==
    [][ \A r \in Uploads :
          LET u == up[r]
              v == up'[r]
          IN
          /\ (u.pc = "idle" /\ v.pc = "regen") =>
                UNCHANGED <<files, blobs, captchas>>
          /\ (u.pc = "find" /\ v.pc \in {"regen", "delete"} /\ v.next # <<>>) =>
                UNCHANGED <<files, blobs, captchas>>
          /\ (u.pc = "delete" /\ v.pc = "regen") =>
                /\ UNCHANGED <<files, blobs>>
                /\ DOMAIN captchas' = DOMAIN captchas \ {u.captchaKey}
                /\ \A k \in DOMAIN captchas' : captchas'[k] = captchas[k]
          /\ (u.pc = "regen" /\ v.pc = "done") =>
                /\ UNCHANGED <<files, blobs>>
                /\ u.next \in EarlyExitMessages /\ sent'.error = u.next
                /\ v.uuid = ""
                /\ sent'.captchaKey \notin DOMAIN captchas
                /\ DOMAIN captchas' = DOMAIN captchas \cup {sent'.captchaKey}
                /\ \A k \in DOMAIN captchas : captchas'[k] = captchas[k]
      ]_vars
\* an upload of a type that is not allowed has been rejected: its challenge
\* is gone, the new one is the only one stored, and there is no artifact
C26_Witness ==
    /\ sent.to \in Uploads /\ sent.error = MsgBadType
    /\ DOMAIN captchas = {sent.captchaKey}
    /\ files = Empty /\ blobs = Empty

\* C27 (existing artifacts survive an identifier collision): when an upload
\* draws an identifier that already has an artifact record, the step that
\* writes its blob leaves the stored blobs as they were, and the insert step
\* fails, heads for the error page and not the success page, and leaves the
\* records and the blobs as they were.
C27_CollisionSafe ==
    [][ \A r \in Uploads :
          LET u == up[r]
              v == up'[r]
          IN
          /\ (u.pc = "delete" /\ v.pc = "insert" /\ v.uuid \in DOMAIN files) =>
                blobs' = blobs
          /\ (u.pc = "insert" /\ v.pc # "insert" /\ u.uuid \in DOMAIN files) =>
                /\ v.pc = "catch"
                /\ sent'.view # "upload-success"
                /\ UNCHANGED <<files, blobs>>
      ]_vars

\* C28 (a record always has its blob): in every state, the states between
\* the steps of an upload included, each identifier with an artifact record
\* has a stored blob, and a download whose lookup finds a record is not
\* answered with the failure of a missing blob, whatever code it carries.
C28_RecordHasBlob ==
    /\ \A u \in DOMAIN files : u \in DOMAIN blobs
    /\ \A q \in Downloads, totp \in TotpInputs \ {NoTotp} :
          (down[q].pc = "find" /\ down[q].uuid \in DOMAIN files) =>
              \A o \in DownloadOutcomes(q, down[q].uuid, totp) :
                  o.error # MsgDownloadError
\* a download is about to find a record while another upload has written
\* its blob and not yet inserted its record
C28_Witness ==
    /\ \E q \in Downloads : down[q].pc = "find" /\ down[q].uuid \in DOMAIN files
    /\ \E r \in Uploads : up[r].pc = "insert" /\ up[r].uuid \notin DOMAIN files

\* C29 (presence check): an upload that comes with a token and no answer, or
\* with an answer and no token, heads for "verification required" without a
\* lookup; none of its steps removes or changes a stored challenge, the one
\* under its token included, and its last step stores one new challenge.
C29_PresenceExitFrame ==
    [][ LET u == up["u1"]
            v == up'["u1"]
        IN
        /\ ( /\ u.pc = "idle" /\ v.pc # "idle"
             /\ (probe'.captchaKey = NoKey) # (probe'.captchaAnswer = <<>>) ) =>
              /\ v.pc = "regen" /\ v.next = MsgRequired /\ ~v.reached
              /\ UNCHANGED captchas
        /\ (u.pc = "regen" /\ u.next = MsgRequired /\ v.pc # "regen") =>
              /\ v.pc = "done" /\ ~v.reached
              /\ sent'.error = MsgRequired
              /\ \A k \in DOMAIN captchas :
                    k \in DOMAIN captchas' /\ captchas'[k] = captchas[k]
              /\ Cardinality(DOMAIN captchas') = Cardinality(DOMAIN captchas) + 1
      ]_vars
\* after an upload with a stored token and no answer was answered
\* "verification required", another upload has passed the checks with that
\* token
C29_Witness ==
    /\ probe.op = "uploadFile"
    /\ probe.captchaKey \in IssuedKeys /\ probe.captchaAnswer = <<>>
    /\ up["u1"].pc = "done"
    /\ up["u2"].passed /\ up["u2"].captchaKey = probe.captchaKey

\* C30 (serving a challenge image): the lookup step of an image request for
\* a stored token that has not expired sends the image and leaves the
\* challenges as they are; for an expired token it sends nothing yet and the
\* next step removes that row, and no other, and answers 404 "Captcha
\* expired"; for an unknown token it answers 404 and changes nothing.
C30_ImageFrame ==
    [][ LET k == img.key IN
        /\ (img.pc = "find" /\ img'.pc # "find") =>
              /\ UNCHANGED captchas
              /\ IF k \notin DOMAIN captchas
                 THEN sent'.view = "404" /\ sent'.error = MsgImageNotFound
                      /\ img'.pc = "idle"
                 ELSE IF now > captchas[k].created_at + captchaExpiryMs
                 THEN img'.pc = "delete" /\ sent' = NoResp
                 ELSE sent'.view = "image/png" /\ sent'.captchaKey = k
                      /\ img'.pc = "idle"
        /\ (img.pc = "delete" /\ img'.pc # "delete") =>
              /\ sent'.view = "404" /\ sent'.error = MsgImageExpired
              /\ DOMAIN captchas' = DOMAIN captchas \ {k}
              /\ \A j \in DOMAIN captchas' : captchas'[j] = captchas[j]
              /\ k \in DOMAIN captchas => now > captchas[k].created_at + captchaExpiryMs
      ]_vars
\* the image of a token has been served a second time, and is the response
\* on the wire, while an upload has found that token stored and unexpired
C30_Witness ==
    /\ sent.view = "image/png" /\ sent.captchaKey \in img.shown
    /\ up["u1"].pc = "delete" /\ up["u1"].next = <<>>
    /\ up["u1"].captchaKey = sent.captchaKey

\* C31 (downloads change no state): a step of a download request, whatever
\* it answers (format error, code required, not found, invalid code,
\* decryption failure, the file), leaves the file records, the stored blobs
\* and the challenges exactly as they were.
C31_DownloadFrame ==
    [][ ( \/ \E q \in Downloads : down'[q] # down[q]
          \/ sent' # sent /\ sent'.to \in Downloads )
        => /\ files' = files
           /\ blobs' = blobs
           /\ captchas' = captchas
      ]_vars
\* a download has been answered with the file while a challenge is stored,
\* and the record and the blob it was served from are in place
C31_Witness ==
    /\ sent.to \in Downloads /\ sent.view = "file"
    /\ sent.param \in DOMAIN files /\ sent.param \in DOMAIN blobs
    /\ DOMAIN captchas # {}
\* ... and a download has been answered with a decryption failure
C31_WitnessFailure ==
    /\ sent.to \in Downloads /\ sent.error \in {MsgKeyChanged, MsgDecryptError}
    /\ sent.param \in DOMAIN files /\ sent.param \in DOMAIN blobs

\* C32 (sweep task lifecycle): at most one sweep timer is active, and it is
\* the one whose handle is held; a start made while a timer is held leaves
\* that timer, with its interval, as the only one; a stop clears the timer
\* held, and a timer callback fires only while a timer is active (so none
\* fires between a stop and the next start); a stop made while no timer is
\* held changes nothing.
C32_SweepLifecycle ==
    [][ /\ Cardinality(timers') <= 1
        /\ timers' = IF cleanupInterval' = NoTimer THEN {} ELSE {cleanupInterval'}
        /\ (probe' # probe /\ probe'.op = "startCaptchaCleanup") =>
              IF timers # {}
              THEN timers' = timers /\ cleanupInterval' = cleanupInterval
              ELSE \E t \in timers' : t.intervalMs = probe'.intervalMs
        /\ (probe' # probe /\ probe'.op = "stopCaptchaCleanup") =>
              /\ timers' = {} /\ cleanupInterval' = NoTimer
              /\ timers = {} => (cleanupInterval = NoTimer /\ captchas' = captchas /\ sweep' = sweep)
        /\ (sweep.pc = "idle" /\ sweep'.pc = "delete") =>
              timers # {} /\ probe.op # "stopCaptchaCleanup"
      ]_vars
\* a start has been made while a timer with another interval was held, and
\* that timer is the one still active
C32_Witness ==
    /\ probe.op = "startCaptchaCleanup" /\ probe.running
    /\ Cardinality(timers) = 1
    /\ \A t \in timers : t.intervalMs # probe.intervalMs

====
